---- MODULE Spec2Model ----
(***************************************************************************)
(* Model of nexmo_exporter.go: process startup (main,                      *)
(* readAPIAuthCredentials, NewExporter), the Prometheus collector          *)
(* (Exporter.Collect, Exporter.scrape), the balance client                 *)
(* (Exporter.getBalance) and the consumer of the channel Collect sends     *)
(* its three metrics on.                                                   *)
(***************************************************************************)
EXTENDS Integers, Sequences, FiniteSets, TLC

(* ---------------------------- bounds ----------------------------------- *)

\* Cap on the number of collection passes triggered in one run.
MaxScrapes == 3
\* Balances the upstream can report are 0..MaxBalance.
MaxBalance == 2
\* Capacity of the channel handed to Collect is 0..MaxChanCap
\* (0: unbuffered; 2 or more never blocks the three sends of one pass).
MaxChanCap == 2

\* Inbound requests to the metrics path that may overlap.
Requests == {"r1", "r2"}

Balances == 0..MaxBalance

NoOwner == "none"

(* ------------------------ credential file ------------------------------ *)

\* Contents of /app/credentials/nexmo.json:
\*   missing   : ReadFile fails
\*   garbage   : not JSON at all
\*   wrongtype : {"APIKey": 5, "APISecret": "s"}
\*   valid     : {"APIKey": "k", "APISecret": "s"}
CredFiles == {"missing", "garbage", "wrongtype", "valid"}

\* type APICredentials struct, zero value.
APICredentials == [APIKey |-> "", APISecret |-> ""]

\* json.Unmarshal(jsonData, &credentialsData): what it leaves in the struct
\* and the error it reports.
UnmarshalCredentials(file) ==
    CASE file = "valid"     -> [err |-> FALSE, data |-> [APIKey |-> "k", APISecret |-> "s"]]
      [] file = "wrongtype" -> [err |-> TRUE,  data |-> [APIKey |-> "", APISecret |-> "s"]]
      [] OTHER              -> [err |-> TRUE,  data |-> APICredentials]

\* readAPIAuthCredentials: log.Fatal on a failed ReadFile (the process exits);
\* otherwise the struct as Unmarshal left it and a nil error: the error of
\* Unmarshal is dropped.
readAPIAuthCredentials(file) ==
    IF file = "missing"
    THEN [fatal |-> TRUE, creds |-> APICredentials]
    ELSE [fatal |-> FALSE, creds |-> UnmarshalCredentials(file).data]

(* --------------------------- balance client ---------------------------- *)

\* Values of the --nexmo.url flag: one that url.Parse accepts, one it rejects.
ApiUrls == {"https://rest.nexmo.com", "%zz"}

\* NewExporter: uri := apiUrl + "/account/get-balance/" + key + "/" + secret
NewURI(apiUrl, key, secret) == <<apiUrl, "/account/get-balance/", key, "/", secret>>

\* http.NewRequest("GET", e.URI, nil) returns an error iff the URI does not parse.
NewRequestOK(uri) == uri[1] = "https://rest.nexmo.com"

\* Response bodies:
\*   garbage : not JSON
\*   null    : the JSON value null
\*   array   : a JSON array
\*   object  : a JSON object; value and autoReload say what each field holds
Bodies ==
    {[top |-> t, value |-> "absent", num |-> 0, autoReload |-> "absent"] :
        t \in {"garbage", "null", "array", "object"}}
    \cup {[top |-> "object", value |-> "string", num |-> 0, autoReload |-> "bool"]}
    \cup {[top |-> "object", value |-> "number", num |-> n, autoReload |-> a] :
            n \in Balances, a \in {"absent", "bool", "string"}}

\* A body of the shape the upstream contract promises:
\* {"value": number, "autoReload": bool}
ExpectedShape(body) ==
    body.top = "object" /\ body.value = "number" /\ body.autoReload = "bool"

GoodBody == [top |-> "object", value |-> "number", num |-> 1, autoReload |-> "bool"]

\* What e.client.Do and the reads of the response can produce.
Responses ==
    {[net |-> FALSE, status |-> 0, readOK |-> FALSE, body |-> GoodBody]}
    \cup {[net |-> TRUE, status |-> 500, readOK |-> TRUE, body |-> b] :
            b \in {GoodBody, [GoodBody EXCEPT !.top = "garbage", !.value = "absent",
                                              !.num = 0, !.autoReload = "absent"]}}
    \cup {[net |-> TRUE, status |-> 200, readOK |-> FALSE, body |-> GoodBody]}
    \cup {[net |-> TRUE, status |-> 200, readOK |-> TRUE, body |-> b] : b \in Bodies}

NoResp == [net |-> FALSE, status |-> -1, readOK |-> FALSE, body |-> GoodBody]

\* json.Unmarshal(body, &balance) into balanceResp{Value float64, AutoReload bool}:
\* a syntax error or a non-object value fails (null is accepted and leaves the
\* struct alone); a field of the wrong JSON type fails but the other fields are
\* still stored; an absent field keeps the zero value.
Unmarshal(body) ==
    CASE body.top = "garbage" -> [err |-> TRUE,  Value |-> 0]
      [] body.top = "array"   -> [err |-> TRUE,  Value |-> 0]
      [] body.top = "null"    -> [err |-> FALSE, Value |-> 0]
      [] OTHER ->
           [err   |-> body.value = "string" \/ body.autoReload = "string",
            Value |-> IF body.value = "number" THEN body.num ELSE 0]

Failure(kind, code) == [err |-> kind, code |-> code, val |-> 0]

\* Faulty variant: getBalance without the check of resp.StatusCode.
getBalanceNoStatusCheck(uri, rsp) ==
    IF ~NewRequestOK(uri) THEN Failure("request", 0)
    ELSE IF ~rsp.net THEN Failure("transport", 0)
    ELSE IF ~rsp.readOK THEN Failure("read", 0)
    ELSE IF Unmarshal(rsp.body).err THEN Failure("decode", 0)
    ELSE [err |-> "none", code |-> 0, val |-> Unmarshal(rsp.body).Value]

\* Exporter.getBalance: (float64, error).
getBalance(uri, rsp) ==
    IF ~NewRequestOK(uri) THEN Failure("request", 0)
    ELSE IF ~rsp.net THEN Failure("transport", 0)
    ELSE IF rsp.status # 200 THEN Failure("status", rsp.status)
    ELSE IF ~rsp.readOK THEN Failure("read", 0)
    ELSE IF Unmarshal(rsp.body).err THEN Failure("decode", 0)
    ELSE [err |-> "none", code |-> 0, val |-> Unmarshal(rsp.body).Value]

NoResult == [err |-> "pending", code |-> 0, val |-> 0]

(* ------------------------------ state ---------------------------------- *)

Metrics == {"up", "totalScrapes", "balance"}
Unread == [m \in Metrics |-> -1]

VARIABLES
    credFile,      \* the credential file found at startup
    apiUrl,        \* the --nexmo.url flag
    chanCap,       \* capacity of the channel the registry hands to Collect
    mainpc,        \* position of main
    URI,           \* Exporter.URI
    mutex,         \* Exporter.mutex: its holder, or NoOwner
    up,            \* Exporter.up
    totalScrapes,  \* Exporter.totalScrapes
    balance,       \* Exporter.balance
    pc,            \* position of each request's Collect call
    resp,          \* the upstream response of the getBalance call in progress
    res,           \* balance, err of the getBalance call in progress
    sent,          \* metrics sent on the request's channel and not yet written out
    reported,      \* metric values the consumer of the channel wrote out
    \* history
    entered,       \* passes that acquired the lock
    fetches,       \* getBalance calls
    doCalls,       \* e.client.Do calls
    fetchesOf,     \* getBalance calls of the request's current pass
    preBalance,    \* balance when the request's pass acquired the lock
    left,          \* up, totalScrapes, balance as the request's own scrape left them
    everOK,        \* some getBalance call succeeded
    lastGood       \* value of the most recent successful getBalance call

vars == <<credFile, apiUrl, chanCap, mainpc, URI, mutex, up, totalScrapes, balance,
          pc, resp, res, sent, reported, entered, fetches, doCalls, fetchesOf,
          preBalance, left, everOK, lastGood>>

env == <<credFile, apiUrl, chanCap>>
metrics == <<up, totalScrapes, balance>>
history == <<entered, fetches, doCalls, fetchesOf, preBalance, left, everOK, lastGood>>

\* prometheus.NewGauge / NewCounter start at 0; the mutex starts unlocked.
Init ==
    /\ credFile \in CredFiles
    /\ apiUrl \in ApiUrls
    /\ chanCap \in 0..MaxChanCap
    /\ mainpc = "readCredentials"
    /\ URI = <<>>
    /\ mutex = NoOwner
    /\ up = 0
    /\ totalScrapes = 0
    /\ balance = 0
    /\ pc = [r \in Requests |-> "idle"]
    /\ resp = [r \in Requests |-> NoResp]
    /\ res = [r \in Requests |-> NoResult]
    /\ sent = [r \in Requests |-> <<>>]
    /\ reported = [r \in Requests |-> Unread]
    /\ entered = 0
    /\ fetches = 0
    /\ doCalls = 0
    /\ fetchesOf = [r \in Requests |-> 0]
    /\ preBalance = [r \in Requests |-> 0]
    /\ left = [r \in Requests |-> Unread]
    /\ everOK = FALSE
    /\ lastGood = 0

(* ------------------------------ main ----------------------------------- *)

\* main, lines 187-199: readAPIAuthCredentials, then NewExporter.
MainReadCredentials ==
    /\ mainpc = "readCredentials"
    /\ LET r == readAPIAuthCredentials(credFile) IN
         IF r.fatal
         THEN /\ mainpc' = "exited"
              /\ URI' = URI
         ELSE /\ mainpc' = "listen"
              /\ URI' = NewURI(apiUrl, r.creds.APIKey, r.creds.APISecret)
    /\ UNCHANGED <<env, mutex, metrics, pc, resp, res, sent, reported, history>>

\* main, lines 205-220: register, then http.ListenAndServe; a failed bind is fatal.
MainListenAndServe ==
    /\ mainpc = "listen"
    /\ \E bound \in BOOLEAN : mainpc' = IF bound THEN "serving" ELSE "exited"
    /\ UNCHANGED <<env, URI, mutex, metrics, pc, resp, res, sent, reported, history>>

(* ------------------------- Exporter.Collect ---------------------------- *)

\* Passes triggered so far: those that hold or held the lock and those waiting.
Triggered == entered + Cardinality({r \in Requests : pc[r] = "lock"})

Snapshot == [m \in Metrics |->
                CASE m = "up" -> up
                  [] m = "totalScrapes" -> totalScrapes
                  [] m = "balance" -> balance]

\* An inbound request on the metrics path: the registry calls Collect on a
\* goroutine of its own, which reaches e.mutex.Lock().
Trigger(r) ==
    /\ mainpc = "serving"
    /\ pc[r] = "idle"
    /\ Triggered < MaxScrapes
    /\ pc' = [pc EXCEPT ![r] = "lock"]
    /\ UNCHANGED <<env, mainpc, URI, mutex, metrics, resp, res, sent, reported, history>>

\* Faulty variant: Lock that does not wait for the mutex to be free.
LockNoWait(r) ==
    /\ pc[r] = "lock"
    /\ mutex' = r
    /\ pc' = [pc EXCEPT ![r] = "inc"]
    /\ entered' = entered + 1
    /\ preBalance' = [preBalance EXCEPT ![r] = balance]
    /\ UNCHANGED <<env, mainpc, URI, metrics, resp, res, sent, reported,
                   fetches, doCalls, fetchesOf, left, everOK, lastGood>>

\* e.mutex.Lock(): blocks while another Collect holds the mutex.
Lock(r) ==
    /\ pc[r] = "lock"
    /\ mutex = NoOwner
    /\ mutex' = r
    /\ pc' = [pc EXCEPT ![r] = "inc"]
    /\ entered' = entered + 1
    /\ preBalance' = [preBalance EXCEPT ![r] = balance]
    /\ UNCHANGED <<env, mainpc, URI, metrics, resp, res, sent, reported,
                   fetches, doCalls, fetchesOf, left, everOK, lastGood>>

\* Faulty variant: scrape that leaves totalScrapes alone.
ScrapeIncSkipped(r) ==
    /\ pc[r] = "inc"
    /\ pc' = [pc EXCEPT ![r] = "getBalance"]
    /\ UNCHANGED totalScrapes
    /\ UNCHANGED <<env, mainpc, URI, mutex, up, balance, resp, res, sent, reported,
                   history>>

\* scrape: e.totalScrapes.Inc()
ScrapeInc(r) ==
    /\ pc[r] = "inc"
    /\ totalScrapes' = totalScrapes + 1
    /\ pc' = [pc EXCEPT ![r] = "getBalance"]
    /\ UNCHANGED <<env, mainpc, URI, mutex, up, balance, resp, res, sent, reported,
                   history>>

\* Faulty variant: scrape that calls getBalance a second time after a failed call.
ScrapeGetBalanceRetry(r) ==
    /\ pc[r] = "getBalance"
    /\ \E rsp \in Responses :
         LET got == getBalance(URI, rsp) IN
           /\ res' = [res EXCEPT ![r] = got]
           /\ resp' = [resp EXCEPT ![r] = IF NewRequestOK(URI) THEN rsp ELSE NoResp]
           /\ everOK' = (everOK \/ got.err = "none")
           /\ lastGood' = IF got.err = "none" THEN got.val ELSE lastGood
           /\ pc' = [pc EXCEPT ![r] = IF got.err = "none" \/ fetchesOf[r] >= 1
                                      THEN "err" ELSE "getBalance"]
    /\ fetches' = fetches + 1
    /\ fetchesOf' = [fetchesOf EXCEPT ![r] = @ + 1]
    /\ doCalls' = doCalls + (IF NewRequestOK(URI) THEN 1 ELSE 0)
    /\ UNCHANGED <<env, mainpc, URI, mutex, metrics, sent, reported,
                   entered, preBalance, left>>

\* scrape: balance, err := e.getBalance(), against whatever the upstream answers.
\* e.client.Do is reached only when http.NewRequest succeeded.
ScrapeGetBalance(r) ==
    /\ pc[r] = "getBalance"
    /\ \E rsp \in Responses :
         LET got == getBalance(URI, rsp) IN
           /\ res' = [res EXCEPT ![r] = got]
           /\ resp' = [resp EXCEPT ![r] = IF NewRequestOK(URI) THEN rsp ELSE NoResp]
           /\ everOK' = (everOK \/ got.err = "none")
           /\ lastGood' = IF got.err = "none" THEN got.val ELSE lastGood
    /\ fetches' = fetches + 1
    /\ fetchesOf' = [fetchesOf EXCEPT ![r] = @ + 1]
    /\ doCalls' = doCalls + (IF NewRequestOK(URI) THEN 1 ELSE 0)
    /\ pc' = [pc EXCEPT ![r] = "err"]
    /\ UNCHANGED <<env, mainpc, URI, mutex, metrics, sent, reported,
                   entered, preBalance, left>>

\* Faulty variant: the error branch of scrape also storing the 0 that getBalance returned.
ScrapeFailResetsBalance(r) ==
    /\ pc[r] = "err"
    /\ res[r].err # "none"
    /\ up' = 0
    /\ balance' = res[r].val
    /\ left' = [left EXCEPT ![r] = [Snapshot EXCEPT !["up"] = 0, !["balance"] = res[r].val]]
    /\ resp' = [resp EXCEPT ![r] = NoResp]
    /\ pc' = [pc EXCEPT ![r] = "sendUp"]
    /\ UNCHANGED <<env, mainpc, URI, mutex, totalScrapes, res, sent, reported,
                   entered, fetches, doCalls, fetchesOf, preBalance, everOK, lastGood>>

\* scrape: if err != nil { e.up.Set(0); log.Errorf(...); return }
ScrapeFail(r) ==
    /\ pc[r] = "err"
    /\ res[r].err # "none"
    /\ up' = 0
    /\ left' = [left EXCEPT ![r] = [Snapshot EXCEPT !["up"] = 0]]
    /\ resp' = [resp EXCEPT ![r] = NoResp]
    /\ pc' = [pc EXCEPT ![r] = "sendUp"]
    /\ UNCHANGED <<env, mainpc, URI, mutex, totalScrapes, balance, res, sent, reported,
                   entered, fetches, doCalls, fetchesOf, preBalance, everOK, lastGood>>

\* Faulty variant: scrape that stores the fetched balance only when it is larger.
ScrapeSetBalanceKeepsMax(r) ==
    /\ pc[r] = "err"
    /\ res[r].err = "none"
    /\ balance' = IF res[r].val > balance THEN res[r].val ELSE balance
    /\ resp' = [resp EXCEPT ![r] = NoResp]
    /\ pc' = [pc EXCEPT ![r] = "setUp"]
    /\ UNCHANGED <<env, mainpc, URI, mutex, up, totalScrapes, res, sent, reported,
                   history>>

\* scrape: e.balance.Set(balance)
ScrapeSetBalance(r) ==
    /\ pc[r] = "err"
    /\ res[r].err = "none"
    /\ balance' = res[r].val
    /\ resp' = [resp EXCEPT ![r] = NoResp]
    /\ pc' = [pc EXCEPT ![r] = "setUp"]
    /\ UNCHANGED <<env, mainpc, URI, mutex, up, totalScrapes, res, sent, reported,
                   history>>

\* Faulty variant: scrape that leaves up alone after a successful fetch.
ScrapeSetUpSkipped(r) ==
    /\ pc[r] = "setUp"
    /\ up' = up
    /\ left' = [left EXCEPT ![r] = Snapshot]
    /\ pc' = [pc EXCEPT ![r] = "sendUp"]
    /\ UNCHANGED <<env, mainpc, URI, mutex, totalScrapes, balance, resp, res, sent,
                   reported, entered, fetches, doCalls, fetchesOf, preBalance,
                   everOK, lastGood>>

\* scrape: e.up.Set(1)
ScrapeSetUp(r) ==
    /\ pc[r] = "setUp"
    /\ up' = 1
    /\ left' = [left EXCEPT ![r] = [Snapshot EXCEPT !["up"] = 1]]
    /\ pc' = [pc EXCEPT ![r] = "sendUp"]
    /\ UNCHANGED <<env, mainpc, URI, mutex, totalScrapes, balance, resp, res, sent,
                   reported, entered, fetches, doCalls, fetchesOf, preBalance,
                   everOK, lastGood>>

\* ch <- metric: the metric itself (a reference to the gauge or counter) goes on
\* the channel, not its value. The send completes once the channel has room or
\* its receiver has taken the previous metric and written it out.
Send(r, m, from, to) ==
    /\ pc[r] = from
    /\ Len(sent[r]) <= chanCap
    /\ sent' = [sent EXCEPT ![r] = Append(@, m)]
    /\ pc' = [pc EXCEPT ![r] = to]
    /\ UNCHANGED <<env, mainpc, URI, mutex, metrics, resp, res, reported, history>>

\* Collect: ch <- e.up
CollectSendUp(r) == Send(r, "up", "sendUp", "sendTotalScrapes")
\* Collect: ch <- e.totalScrapes
CollectSendTotalScrapes(r) == Send(r, "totalScrapes", "sendTotalScrapes", "sendBalance")
\* Collect: ch <- e.balance
CollectSendBalance(r) == Send(r, "balance", "sendBalance", "unlock")

\* Faulty variant: Collect that releases the mutex only after a successful fetch.
UnlockOnSuccessOnly(r) ==
    /\ pc[r] = "unlock"
    /\ mutex' = IF res[r].err = "none" THEN NoOwner ELSE mutex
    /\ pc' = [pc EXCEPT ![r] = "done"]
    /\ res' = [res EXCEPT ![r] = NoResult]
    /\ preBalance' = [preBalance EXCEPT ![r] = 0]
    /\ fetchesOf' = [fetchesOf EXCEPT ![r] = 0]
    /\ UNCHANGED <<env, mainpc, URI, metrics, resp, sent, reported,
                   entered, fetches, doCalls, left, everOK, lastGood>>

\* Collect: defer e.mutex.Unlock(), run as Collect returns.
Unlock(r) ==
    /\ pc[r] = "unlock"
    /\ mutex' = NoOwner
    /\ pc' = [pc EXCEPT ![r] = "done"]
    /\ res' = [res EXCEPT ![r] = NoResult]
    /\ preBalance' = [preBalance EXCEPT ![r] = 0]
    /\ fetchesOf' = [fetchesOf EXCEPT ![r] = 0]
    /\ UNCHANGED <<env, mainpc, URI, metrics, resp, sent, reported,
                   entered, fetches, doCalls, left, everOK, lastGood>>

\* The receiver of ch takes the next metric Collect sent and writes out the
\* value the gauge or counter holds at that moment.
Write(r) ==
    /\ sent[r] # <<>>
    /\ reported' = [reported EXCEPT ![r][Head(sent[r])] = Snapshot[Head(sent[r])]]
    /\ sent' = [sent EXCEPT ![r] = Tail(@)]
    /\ UNCHANGED <<env, mainpc, URI, mutex, metrics, pc, resp, res, history>>

\* Collect has returned and all it sent is written out: the response goes back.
Respond(r) ==
    /\ pc[r] = "done"
    /\ sent[r] = <<>>
    /\ pc' = [pc EXCEPT ![r] = "idle"]
    /\ reported' = [reported EXCEPT ![r] = Unread]
    /\ left' = [left EXCEPT ![r] = Unread]
    /\ UNCHANGED <<env, mainpc, URI, mutex, metrics, resp, res, sent,
                   entered, fetches, doCalls, fetchesOf, preBalance, everOK, lastGood>>

(* --------------------------- specification ----------------------------- *)

Next ==
    \/ MainReadCredentials
    \/ MainListenAndServe
    \/ \E r \in Requests : Trigger(r)
    \/ \E r \in Requests : Lock(r)
    \/ \E r \in Requests : ScrapeInc(r)
    \/ \E r \in Requests : ScrapeGetBalance(r)
    \/ \E r \in Requests : ScrapeFail(r)
    \/ \E r \in Requests : ScrapeSetBalance(r)
    \/ \E r \in Requests : ScrapeSetUp(r)
    \/ \E r \in Requests : CollectSendUp(r)
    \/ \E r \in Requests : CollectSendTotalScrapes(r)
    \/ \E r \in Requests : CollectSendBalance(r)
    \/ \E r \in Requests : Unlock(r)
    \/ \E r \in Requests : Write(r)
    \/ \E r \in Requests : Respond(r)

Spec == Init /\ [][Next]_vars

\* The lock is fair (a waiter of sync.RWMutex is not starved), every goroutine
\* inside Collect keeps running, every fetch returns (the client has a timeout)
\* and the receiver of the channel keeps draining it. Requests arrive or not.
Fairness ==
    \A r \in Requests :
        /\ SF_vars(Lock(r))
        /\ WF_vars(ScrapeInc(r))
        /\ WF_vars(ScrapeGetBalance(r))
        /\ WF_vars(ScrapeFail(r))
        /\ WF_vars(ScrapeSetBalance(r))
        /\ WF_vars(ScrapeSetUp(r))
        /\ WF_vars(CollectSendUp(r))
        /\ WF_vars(CollectSendTotalScrapes(r))
        /\ WF_vars(CollectSendBalance(r))
        /\ WF_vars(Unlock(r))
        /\ WF_vars(Write(r))

FairSpec == Spec /\ Fairness

(* ------------------------------ properties ----------------------------- *)

\* Between e.mutex.Lock() and the deferred e.mutex.Unlock().
Critical == {"inc", "getBalance", "err", "setUp", "sendUp", "sendTotalScrapes",
             "sendBalance", "unlock"}
\* After scrape has returned, before the mutex is released.
AfterScrape == {"sendUp", "sendTotalScrapes", "sendBalance", "unlock"}

InCritical(r) == pc[r] \in Critical

\* C1: at most one Collect call is inside the critical section at any time,
\* and the one inside holds the mutex.
C1_MutualExclusion ==
    /\ \A r1, r2 \in Requests : InCritical(r1) /\ InCritical(r2) => r1 = r2
    /\ \A r \in Requests : InCritical(r) <=> mutex = r

C1_Witness ==
    \E r1, r2 \in Requests : pc[r1] = "getBalance" /\ pc[r2] = "lock"

\* C2: once scrape has returned from a failed getBalance (whatever the error),
\* up is 0 and balance is what it was when the pass took the lock.
C2_FailedFetch ==
    \A r \in Requests :
        pc[r] \in AfterScrape /\ res[r].err # "none"
            => up = 0 /\ balance = preBalance[r]

C2_Witness ==
    \E r \in Requests :
        /\ pc[r] = "unlock"
        /\ res[r].err = "status"
        /\ preBalance[r] = 2
        /\ totalScrapes = 2

\* C3: once scrape has returned from a successful getBalance, up is 1 and
\* balance is the value getBalance returned.
C3_SuccessfulFetch ==
    \A r \in Requests :
        pc[r] \in AfterScrape /\ res[r].err = "none"
            => up = 1 /\ balance = res[r].val

C3_Witness ==
    \E r \in Requests :
        /\ pc[r] = "unlock"
        /\ res[r].err = "none"
        /\ res[r].val = 2
        /\ preBalance[r] = 1

\* C4: totalScrapes only ever goes up, by one, as the first step of a pass that
\* holds the lock and before that pass calls getBalance; so it counts the
\* passes that entered the critical section, less one still about to increment.
C4_StepByOne ==
    \/ totalScrapes' = totalScrapes
    \/ /\ totalScrapes' = totalScrapes + 1
       /\ \E r \in Requests :
            /\ mutex = r
            /\ pc[r] = "inc"
            /\ pc'[r] = "getBalance"
            /\ fetchesOf[r] = 0

C4_Counts ==
    /\ totalScrapes = entered - Cardinality({r \in Requests : pc[r] = "inc"})
    /\ fetches <= totalScrapes

\* C4: every step leaves totalScrapes alone or is the one increment that opens
\* a pass, and totalScrapes always counts the passes that entered.
C4_TotalScrapes == [][C4_StepByOne]_vars /\ []C4_Counts

C4_Witness ==
    /\ totalScrapes = 2
    /\ entered = 2
    /\ everOK
    /\ up = 0
    /\ mutex = NoOwner

\* The request's Collect has returned and all three metrics are written out.
Reported(r) ==
    /\ pc[r] = "done"
    /\ sent[r] = <<>>

\* C5: the three values written out for a pass are the state that pass's own
\* scrape left behind.
C5_NoTornReads ==
    \A r \in Requests : Reported(r) => reported[r] = left[r]

\* C6: main serves only if the credential file was present and parsed.
C6_ServingNeedsCredentials ==
    mainpc = "serving" => credFile = "valid"

\* Metrics the request's pass has sent so far.
Emitted(r) ==
    Len(sent[r]) + Cardinality({m \in Metrics : reported[r][m] # -1})

\* C7: every pass that was triggered, waiting for the lock or holding it, after
\* a failed fetch as after a successful one, ends with its three metrics sent
\* and the mutex released.
C7_Completed(r) ==
    /\ pc[r] = "done"
    /\ Emitted(r) = 3
    /\ mutex # r

\* C7: a request waiting for the lock, and a pass whose fetch failed, each lead
\* to that pass completed.
C7_PassCompletes ==
    \A r \in Requests :
        /\ (pc[r] = "lock") ~> C7_Completed(r)
        /\ (pc[r] = "err" /\ res[r].err # "none") ~> C7_Completed(r)

C7_Witness ==
    \E r1, r2 \in Requests :
        /\ pc[r1] = "lock"
        /\ pc[r2] = "sendUp"
        /\ res[r2].err = "transport"

\* C8: while no pass holds the lock, balance is 0 if no getBalance call has
\* succeeded yet and otherwise the value of the latest successful call.
C8_LastKnownGood ==
    mutex = NoOwner => balance = (IF everOK THEN lastGood ELSE 0)

C8_Witness ==
    /\ mutex = NoOwner
    /\ everOK
    /\ up = 0
    /\ balance = 1
    /\ totalScrapes = 3

\* C9: a pass calls getBalance exactly once (none before its fetch step, one
\* after), a call issues at most one HTTP request, and while no pass holds the
\* lock the number of getBalance calls equals totalScrapes.
C9_OneFetchPerPass ==
    /\ \A r \in Requests :
         fetchesOf[r] = (IF pc[r] \in (Critical \ {"inc", "getBalance"}) THEN 1 ELSE 0)
    /\ doCalls <= fetches
    /\ mutex = NoOwner => fetches = totalScrapes

C9_Witness ==
    /\ mutex = NoOwner
    /\ fetches = 2
    /\ doCalls = 2
    /\ up = 0
    /\ ~everOK

\* getBalance has just returned to scrape with a response in hand.
Fetched(r) == pc[r] = "err" /\ NewRequestOK(URI)

\* The errors of C10, which both statements of it share: no transport, a
\* status other than 200 whatever the body, a value of the wrong JSON type.
C10_Errors(r) ==
    /\ ~resp[r].net => res[r].err = "transport"
    /\ resp[r].net /\ resp[r].status # 200
         => res[r].err = "status" /\ res[r].code = resp[r].status
    /\ resp[r].net /\ resp[r].status = 200 /\ ~resp[r].readOK => res[r].err = "read"
    /\ resp[r].net /\ resp[r].status = 200 /\ resp[r].readOK
         /\ resp[r].body.value = "string" => res[r].err = "decode"
    /\ res[r].err = "none" => resp[r].net /\ resp[r].status = 200 /\ resp[r].readOK

\* C10 as claimed: a value is returned only for a 200 response whose body has
\* the expected shape.
C10_OnlyExpectedShape ==
    \A r \in Requests :
        Fetched(r) =>
            /\ C10_Errors(r)
            /\ res[r].err = "none" => ExpectedShape(resp[r].body)

\* C10 as the code has it: a value is returned for a 200 response whose body
\* is null or an object with no field of the wrong type; an absent value
\* reads as 0.
C10_OnlyDecodable ==
    \A r \in Requests :
        Fetched(r) =>
            /\ C10_Errors(r)
            /\ res[r].err = "none" =>
                 /\ resp[r].body.top \in {"object", "null"}
                 /\ resp[r].body.value \in {"number", "absent"}
                 /\ resp[r].body.autoReload \in {"bool", "absent"}
                 /\ res[r].val = (IF resp[r].body.value = "number"
                                  THEN resp[r].body.num ELSE 0)
            /\ ExpectedShape(resp[r].body) /\ resp[r].net /\ resp[r].status = 200
                 /\ resp[r].readOK
                 => res[r].err = "none" /\ res[r].val = resp[r].body.num

C10_Witness ==
    \E r \in Requests :
        /\ Fetched(r)
        /\ res[r].err = "none"
        /\ resp[r].body.top = "object"
        /\ resp[r].body.value = "absent"

====
